---- MODULE Spec2Model ----
(***************************************************************************)
(* State-machine model of the diri-planner core app: the three tree-shaped *)
(* entity types (Application, Attribute, Organisation), the slug           *)
(* assignment of Base.save, and the save/delete surfaces (model, admin,    *)
(* CRUD views).                                                            *)
(***************************************************************************)
EXTENDS Integers, Sequences, FiniteSets, TLC

VARIABLES store, nextId, last, reqs, start, attrs

vars == <<store, nextId, last, reqs, start, attrs>>

-----------------------------------------------------------------------------
(* Bounds *)

\* records ever created in a run of the hierarchy specification
MaxNodes == 4

\* records ever created in a run of the slug specification
MaxRecords == 2

\* records ever created in a run of the slug-generation specification
MaxBatch == 3

\* records created before the concurrent admin requests start
ConcNodes == 3

\* records ever created in a run of the view specification
MaxViewRecords == 2

\* attributes ever created in a run of the attribute specification
MaxAttrs == 2

\* saves ever started in a run of the interleaved-save specification
MaxRace == 3

-----------------------------------------------------------------------------
(* Values *)

EntityTypes == {"Application", "Attribute", "Organisation"}

\* parent = None
NoParent == 0

\* the empty string: a blank name, or a slug that was not supplied
Empty == << >>

\* names a request may carry, as character sequences
Names == { Empty, <<"A">>, <<"a", " ", "1">> }

\* the same, and a name made of punctuation only
BatchNames == Names \cup { <<"!">> }

\* slugs a request may supply explicitly
ExplicitSlugs == { <<"a", "-", "1">> }

-----------------------------------------------------------------------------
(* django.utils.text.slugify, on character sequences *)

Lower(c) == IF c = "A" THEN "a" ELSE c

WordChars == {"a", "0", "1", "2", "3", "4", "5", "6", "7", "8", "9", "_"}

IsSepChar(c) == c \in {"-", " "}

KeepChar(c) == c \in WordChars \/ IsSepChar(c)

RECURSIVE Collapse(_)
Collapse(s) ==
    IF s = << >> THEN << >>
    ELSE IF IsSepChar(Head(s))
         THEN IF Len(s) > 1 /\ IsSepChar(s[2])
              THEN Collapse(Tail(s))
              ELSE <<"-">> \o Collapse(Tail(s))
         ELSE <<Head(s)>> \o Collapse(Tail(s))

RECURSIVE StripLeft(_)
StripLeft(s) ==
    IF s # << >> /\ Head(s) \in {"-", "_"} THEN StripLeft(Tail(s)) ELSE s

RECURSIVE StripRight(_)
StripRight(s) ==
    IF s # << >> /\ s[Len(s)] \in {"-", "_"}
    THEN StripRight(SubSeq(s, 1, Len(s) - 1))
    ELSE s

Slugify(value) ==
    LET lowered == [i \in 1..Len(value) |-> Lower(value[i])]
        kept    == SelectSeq(lowered, KeepChar)
    IN  StripRight(StripLeft(Collapse(kept)))

\* str(counter) of the f-string in Base.save
Digit == <<"0", "1", "2", "3", "4", "5", "6", "7", "8", "9">>

RECURSIVE DecStr(_)
DecStr(n) ==
    IF n < 10 THEN <<Digit[n + 1]>>
    ELSE DecStr(n \div 10) \o <<Digit[(n % 10) + 1]>>

Suffixed(base_slug, counter) == base_slug \o <<"-">> \o DecStr(counter)

-----------------------------------------------------------------------------
(* Base.save: slug assignment, then the row write under unique=True *)

\* variant: the record being saved is not excluded from the lookup
SlugExistsCountsSelf(S, slug, selfId) == \E r \in S : r.slug = slug

\* model_class.objects.filter(slug=slug).exclude(id=self.id).exists()
SlugExists(S, slug, selfId) == \E r \in S : r.slug = slug /\ r.id # selfId

\* variant: the counter is incremented before it is formatted
RECURSIVE UniqueSlugSkipsOne(_, _, _, _, _)
UniqueSlugSkipsOne(S, selfId, base_slug, slug, counter) ==
    IF SlugExists(S, slug, selfId)
    THEN UniqueSlugSkipsOne(S, selfId, base_slug, Suffixed(base_slug, counter + 1),
                            counter + 1)
    ELSE slug

RECURSIVE UniqueSlug(_, _, _, _, _)
UniqueSlug(S, selfId, base_slug, slug, counter) ==
    IF SlugExists(S, slug, selfId)
    THEN UniqueSlug(S, selfId, base_slug, Suffixed(base_slug, counter), counter + 1)
    ELSE slug

\* variant: a supplied slug is made unique by the counter as well
AssignSlugSuffixesExplicit(S, obj) ==
    IF obj.slug # Empty
    THEN UniqueSlug(S, obj.id, obj.slug, obj.slug, 1)
    ELSE IF obj.name # Empty
         THEN UniqueSlug(S, obj.id, Slugify(obj.name), Slugify(obj.name), 1)
         ELSE obj.slug

\* the slug the instance carries when it reaches super().save()
AssignSlug(S, obj) ==
    IF obj.slug = Empty
    THEN IF obj.name # Empty
         THEN UniqueSlug(S, obj.id, Slugify(obj.name), Slugify(obj.name), 1)
         ELSE obj.slug
    ELSE obj.slug

\* variant: the slug column without unique=True
NoUniqueConstraint(S, obj) == FALSE

\* the unique constraint of the slug column
UniqueViolation(S, obj) == \E r \in S : r.id # obj.id /\ r.slug = obj.slug

\* INSERT or UPDATE of the row with obj's primary key
WriteRow(S, obj) == {r \in S : r.id # obj.id} \cup {obj}

BaseSave(S, obj) ==
    LET o == [obj EXCEPT !.slug = AssignSlug(S, obj)]
    IN  IF UniqueViolation(S, o)
        THEN [ok |-> FALSE, err |-> "IntegrityError", rows |-> S]
        ELSE [ok |-> TRUE, err |-> "none", rows |-> WriteRow(S, o)]

-----------------------------------------------------------------------------
(* Hierarchy index: parent, _depth, _path, _left, _right of TreeNodeModel.   *)
(* Maintained by full recomputation on every structural change.             *)

HexDigit == <<"0", "1", "2", "3", "4", "5", "6", "7", "8", "9",
              "A", "B", "C", "D", "E", "F">>

\* one path segment: the sibling position as three hexadecimal digits
Segment(n) ==
    << HexDigit[((n \div 256) % 16) + 1],
       HexDigit[((n \div 16) % 16) + 1],
       HexDigit[(n % 16) + 1] >>

\* variant: segments joined without the separator
ExtendPathNoSeparator(prefix, n) == prefix \o Segment(n)

ExtendPath(prefix, n) ==
    IF prefix = Empty THEN Segment(n) ELSE prefix \o <<".">> \o Segment(n)

ChildrenOf(S, p) == {r \in S : r.parent = p}

\* siblings in insertion order (ids are handed out in creation order)
RECURSIVE InOrder(_)
InOrder(R) ==
    IF R = {} THEN << >>
    ELSE LET first == CHOOSE r \in R : \A q \in R : r.id <= q.id
         IN  <<first>> \o InOrder(R \ {first})

Ids(S) == {r.id : r \in S}

\* variant: every record numbered as a leaf, one after the other
RECURSIVE WalkFlat(_, _, _, _, _, _)
WalkFlat(S, kids, i, depth, prefix, n) ==
    IF i > Len(kids) THEN [rows |-> {}, next |-> n]
    ELSE LET path == ExtendPath(prefix, i - 1)
             sub  == WalkFlat(S, InOrder(ChildrenOf(S, kids[i].id)), 1, depth + 1,
                              path, n + 2)
             node == [kids[i] EXCEPT !.depth = depth, !.path = path,
                                     !.left = n, !.right = n + 1]
             rest == WalkFlat(S, kids, i + 1, depth, prefix, sub.next)
         IN  [rows |-> {node} \cup sub.rows \cup rest.rows, next |-> rest.next]

\* depth-first numbering of the records kids[i..], n the next free number:
\* a record takes its left value on entry and its right value on exit
RECURSIVE Walk(_, _, _, _, _, _)
Walk(S, kids, i, depth, prefix, n) ==
    IF i > Len(kids) THEN [rows |-> {}, next |-> n]
    ELSE LET path == ExtendPath(prefix, i - 1)
             sub  == Walk(S, InOrder(ChildrenOf(S, kids[i].id)), 1, depth + 1, path, n + 1)
             node == [kids[i] EXCEPT !.depth = depth, !.path = path,
                                     !.left = n, !.right = sub.next]
             rest == Walk(S, kids, i + 1, depth, prefix, sub.next + 1)
         IN  [rows |-> {node} \cup sub.rows \cup rest.rows, next |-> rest.next]

\* update_tree(): every record reached from a root gets its derived fields
Rebuild(S) ==
    LET reached == Walk(S, InOrder(ChildrenOf(S, NoParent)), 1, 0, Empty, 1).rows
    IN  IF Cardinality(reached) = Cardinality(S) THEN reached
        ELSE LET ids == Ids(reached)
             IN  reached \cup {r \in S : r.id \notin ids}

UpdateTree(S) == Rebuild(S)

Row(S, id) == CHOOSE r \in S : r.id = id

\* walks the chain p, parent(p), ... looking for x
RECURSIVE InChain(_, _, _, _)
InChain(S, x, p, fuel) ==
    IF p = NoParent \/ fuel = 0 \/ p \notin Ids(S) THEN FALSE
    ELSE IF p = x THEN TRUE
    ELSE InChain(S, x, Row(S, p).parent, fuel - 1)

\* x is a proper ancestor of record r
IsAncestor(S, x, r) == InChain(S, x, r.parent, Cardinality(S))

\* variant: only the record itself is refused as its parent
WouldCycleSelfOnly(S, x, p) == p = x

\* assigning parent p to record x would make x its own ancestor
WouldCycle(S, x, p) == InChain(S, x, p, Cardinality(S))

\* variant: the cycle is detected after the row has been written
TreeSaveChecksAfterWrite(S, obj) ==
    LET b == BaseSave(S, obj)
    IN  IF WouldCycle(S, obj.id, obj.parent)
        THEN [ok |-> FALSE, err |-> "ValidationError",
              rows |-> IF b.ok THEN Rebuild(b.rows) ELSE S]
        ELSE IF b.ok THEN [b EXCEPT !.rows = Rebuild(b.rows)] ELSE b

\* variant: saving an existing record leaves the index as it is
TreeSaveNoReindexOnUpdate(S, obj) ==
    IF WouldCycle(S, obj.id, obj.parent)
    THEN [ok |-> FALSE, err |-> "ValidationError", rows |-> S]
    ELSE LET b == BaseSave(S, obj)
         IN  IF b.ok /\ obj.id \notin Ids(S)
             THEN [b EXCEPT !.rows = Rebuild(b.rows)]
             ELSE b

\* TreeNodeModel.save -> Base.save -> row write, then the index maintenance
TreeSave(S, obj) ==
    IF WouldCycle(S, obj.id, obj.parent)
    THEN [ok |-> FALSE, err |-> "ValidationError", rows |-> S]
    ELSE LET b == BaseSave(S, obj)
         IN  IF b.ok THEN [b EXCEPT !.rows = Rebuild(b.rows)] ELSE b

\* delete(): the parent link cascades
TreeDelete(S, id) ==
    Rebuild({r \in S : r.id # id /\ ~IsAncestor(S, id, r)})

-----------------------------------------------------------------------------
(* Operations *)

NewObj(name, slug, parent) ==
    [id |-> nextId, name |-> name, slug |-> slug, parent |-> parent,
     depth |-> 0, path |-> Empty, left |-> 0, right |-> 0]

\* a parent the caller can pick: none, or a stored record of the same type
ParentChoices(t) == {NoParent} \cup Ids(store[t])

Outcome(res) == IF res.ok THEN "ok" ELSE res.err

Done(op, outcome) ==
    /\ last' = [op |-> op, outcome |-> outcome]
    /\ UNCHANGED <<reqs, start, attrs>>

\* Model.objects.create(name=..., slug=..., parent=...)
ModelCreate(t, name, slug, parent) ==
    LET res == TreeSave(store[t], NewObj(name, slug, parent))
    IN  /\ parent \in ParentChoices(t)
        /\ store' = [store EXCEPT ![t] = res.rows]
        /\ nextId' = IF res.ok THEN nextId + 1 ELSE nextId
        /\ Done("create", Outcome(res))

\* instance.name, .slug, .parent assigned, then instance.save()
ModelSave(t, id, name, slug, parent) ==
    /\ id \in Ids(store[t])
    /\ parent \in ParentChoices(t)
    /\ LET obj == [Row(store[t], id) EXCEPT !.name = name, !.slug = slug,
                                            !.parent = parent]
           res == TreeSave(store[t], obj)
       IN  /\ store' = [store EXCEPT ![t] = res.rows]
           /\ Done("save", Outcome(res))
    /\ UNCHANGED nextId

\* ModelAdmin.save_model: the slug is read-only in the admin form
AdminSaveModel(t, change, id, name, parent) ==
    /\ parent \in ParentChoices(t)
    /\ IF change THEN id \in Ids(store[t]) ELSE id = nextId
    /\ LET obj == IF change
                  THEN [Row(store[t], id) EXCEPT !.name = name, !.parent = parent]
                  ELSE NewObj(name, Empty, parent)
           res == TreeSave(store[t], obj)
       IN  IF name = Empty
           THEN /\ UNCHANGED <<store, nextId>>
                /\ Done("admin_save", "invalid")
           ELSE /\ store' = [store EXCEPT ![t] =
                                IF res.ok THEN UpdateTree(res.rows) ELSE res.rows]
                /\ nextId' = IF res.ok /\ ~change THEN nextId + 1 ELSE nextId
                /\ Done("admin_save", Outcome(res))

\* ApplicationCRUDView create/update: a model form over name, parent, slug
CrudFormValid(S, id, name, slug) ==
    /\ name # Empty
    /\ ~(\E r \in S : r.id # id /\ r.slug = slug)

CrudCreate(name, slug, parent) ==
    LET t == "Application"
        res == TreeSave(store[t], NewObj(name, slug, parent))
    IN  /\ parent \in ParentChoices(t)
        /\ IF ~CrudFormValid(store[t], nextId, name, slug)
           THEN /\ UNCHANGED <<store, nextId>>
                /\ Done("crud_create", "invalid")
           ELSE /\ store' = [store EXCEPT ![t] = res.rows]
                /\ nextId' = IF res.ok THEN nextId + 1 ELSE nextId
                /\ Done("crud_create", Outcome(res))

CrudUpdate(id, name, slug, parent) ==
    LET t == "Application"
    IN  /\ id \in Ids(store[t])
        /\ parent \in ParentChoices(t)
        /\ LET obj == [Row(store[t], id) EXCEPT !.name = name, !.slug = slug,
                                                !.parent = parent]
               res == TreeSave(store[t], obj)
           IN  IF ~CrudFormValid(store[t], id, name, slug)
               THEN /\ UNCHANGED store
                    /\ Done("crud_update", "invalid")
               ELSE /\ store' = [store EXCEPT ![t] = res.rows]
                    /\ Done("crud_update", Outcome(res))
        /\ UNCHANGED nextId

\* ApplicationCRUD.edit_view.on_save: validates the form, saves form.instance
EditOnSave(id, name, slug, parent) ==
    LET t == "Application"
    IN  /\ id \in Ids(store[t])
        /\ parent \in ParentChoices(t)
        /\ LET instance == Row(store[t], id)
               res == TreeSave(store[t], instance)
           IN  IF name = Empty \/ slug = Empty
               THEN /\ UNCHANGED store
                    /\ Done("edit_on_save", "invalid")
               ELSE /\ store' = [store EXCEPT ![t] = res.rows]
                    /\ Done("edit_on_save", Outcome(res))
        /\ UNCHANGED nextId

\* variant: only the record itself is removed
DeleteOnlyRecord(t, id) ==
    /\ id \in Ids(store[t])
    /\ store' = [store EXCEPT ![t] = Rebuild({r \in store[t] : r.id # id})]
    /\ Done("delete", "ok")
    /\ UNCHANGED nextId

\* instance.delete() (model, delete view, ApplicationCRUD.edit_view.on_delete)
Delete(t, id) ==
    /\ id \in Ids(store[t])
    /\ store' = [store EXCEPT ![t] = TreeDelete(store[t], id)]
    /\ Done("delete", "ok")
    /\ UNCHANGED nextId

-----------------------------------------------------------------------------
(* Requests to the application views, for any id and any submitted data *)

\* get_object_or_404 / Http404("Application not found")
NotFound(op) ==
    /\ UNCHANGED <<store, nextId>>
    /\ Done(op, "NotFound")

\* the form is shown again with its errors
Rejected(op) ==
    /\ UNCHANGED <<store, nextId>>
    /\ Done(op, "invalid")

\* ApplicationCRUDView detail
CrudDetailView(id) ==
    IF id \in Ids(store["Application"])
    THEN UNCHANGED <<store, nextId>> /\ Done("crud_detail", "ok")
    ELSE NotFound("crud_detail")

\* ApplicationCRUDView create; parent is a choice among the stored records
CrudCreateView(name, slug, parent) ==
    IF parent \notin ParentChoices("Application") THEN Rejected("crud_create")
    ELSE CrudCreate(name, slug, parent)

\* ApplicationCRUDView update
CrudUpdateView(id, name, slug, parent) ==
    IF id \notin Ids(store["Application"]) THEN NotFound("crud_update")
    ELSE IF parent \notin ParentChoices("Application") THEN Rejected("crud_update")
    ELSE CrudUpdate(id, name, slug, parent)

\* variant: the delete runs without looking the record up first
CrudDeleteViewUnchecked(id) ==
    /\ store' = [store EXCEPT !["Application"] =
                    TreeDelete(store["Application"], id)]
    /\ Done("delete", "ok")
    /\ UNCHANGED nextId

\* ApplicationCRUDView delete
CrudDeleteView(id) ==
    IF id \in Ids(store["Application"]) THEN Delete("Application", id)
    ELSE NotFound("delete")

\* ApplicationCRUD.create_view.on_save: the form is validated, then
\* form.instance, which no statement has set, is saved
CreateViewOnSave(name, slug, parent) ==
    IF name = Empty \/ slug = Empty \/ parent \notin ParentChoices("Application")
    THEN Rejected("create_on_save")
    ELSE /\ UNCHANGED <<store, nextId>>
         /\ Done("create_on_save", "AttributeError")

\* ApplicationCRUD.edit_view: the record is looked up, then the submit
\* (on_save) or the delete button (on_delete) is handled
EditView(id, button, name, slug, parent) ==
    IF id \notin Ids(store["Application"]) THEN NotFound("edit_view")
    ELSE IF button = "delete" THEN Delete("Application", id)
    ELSE IF parent \notin ParentChoices("Application") THEN Rejected("edit_on_save")
    ELSE EditOnSave(id, name, slug, parent)

-----------------------------------------------------------------------------
(* Admin change requests taken step by step *)

\* the admin requests in flight at the same time
Requests == {"r1", "r2"}

\* a request that has not started; inst holds the instance a request works on
Idle == [pc |-> "idle", id |-> 0, inst |-> {}]

AllIdle == \A k \in Requests : reqs[k].pc = "idle"

\* the change form is submitted: the record is read and the posted parent is
\* set on the instance that save_model receives
AdminLoad(k, id, parent) ==
    LET t == "Application"
    IN  /\ reqs[k].pc = "idle"
        /\ id \in Ids(store[t])
        /\ parent \in ParentChoices(t)
        /\ reqs' = [reqs EXCEPT ![k] =
                       [pc |-> "loaded", id |-> id,
                        inst |-> {[Row(store[t], id) EXCEPT !.parent = parent]}]]
        /\ start' = IF AllIdle THEN store[t] ELSE start
        /\ UNCHANGED <<store, nextId, last, attrs>>

\* variant: the row is written without the save of the tree model
AdminSaveSkipsIndex(k) ==
    LET t == "Application"
    IN  /\ reqs[k].pc = "loaded"
        /\ \E obj \in reqs[k].inst :
              LET res == BaseSave(store[t], obj)
              IN  /\ store' = [store EXCEPT ![t] = res.rows]
                  /\ reqs' = [reqs EXCEPT ![k].pc = IF res.ok THEN "saved" ELSE "done"]
                  /\ last' = IF res.ok THEN last
                              ELSE [op |-> "admin_save", outcome |-> res.err]
        /\ UNCHANGED <<nextId, start, attrs>>

\* variant: the parent was checked when the form was read, not at the save
AdminSaveUnchecked(k) ==
    LET t == "Application"
    IN  /\ reqs[k].pc = "loaded"
        /\ \E obj \in reqs[k].inst :
              LET res == BaseSave(store[t], obj)
              IN  /\ store' = [store EXCEPT ![t] =
                                  IF res.ok THEN Rebuild(res.rows) ELSE res.rows]
                  /\ reqs' = [reqs EXCEPT ![k].pc = IF res.ok THEN "saved" ELSE "done"]
                  /\ last' = IF res.ok THEN last
                              ELSE [op |-> "admin_save", outcome |-> res.err]
        /\ UNCHANGED <<nextId, start, attrs>>

\* save_model, first statement: super().save_model(...) is obj.save()
AdminSave(k) ==
    LET t == "Application"
    IN  /\ reqs[k].pc = "loaded"
        /\ \E obj \in reqs[k].inst :
              LET res == TreeSave(store[t], obj)
              IN  /\ store' = [store EXCEPT ![t] = res.rows]
                  /\ reqs' = [reqs EXCEPT ![k].pc = IF res.ok THEN "saved" ELSE "done"]
                  /\ last' = IF res.ok THEN last
                              ELSE [op |-> "admin_save", outcome |-> res.err]
        /\ UNCHANGED <<nextId, start, attrs>>

\* save_model, second statement: Application.update_tree()
AdminUpdateTree(k) ==
    LET t == "Application"
    IN  /\ reqs[k].pc = "saved"
        /\ store' = [store EXCEPT ![t] = UpdateTree(store[t])]
        /\ reqs' = [reqs EXCEPT ![k].pc = "done"]
        /\ last' = [op |-> "admin_save", outcome |-> "ok"]
        /\ UNCHANGED <<nextId, start, attrs>>

\* variant: the rebuild fails and the row written by the save stays
AdminUpdateTreeKeepsSave(k) ==
    /\ reqs[k].pc = "saved"
    /\ reqs' = [reqs EXCEPT ![k].pc = "failed"]
    /\ last' = [op |-> "admin_save", outcome |-> "DatabaseError"]
    /\ UNCHANGED <<store, nextId, start, attrs>>

\* save_model, second statement raising: the exception leaves the change view,
\* whose transaction undoes the save made by the first statement
AdminUpdateTreeFails(k) ==
    /\ reqs[k].pc = "saved"
    /\ store' = [store EXCEPT !["Application"] = start]
    /\ reqs' = [reqs EXCEPT ![k].pc = "failed"]
    /\ last' = [op |-> "admin_save", outcome |-> "DatabaseError"]
    /\ UNCHANGED <<nextId, start, attrs>>

\* the response is sent and the request is over
AdminRespond(k) ==
    /\ reqs[k].pc \in {"done", "failed"}
    /\ reqs' = [reqs EXCEPT ![k] = Idle]
    /\ start' = {}
    /\ UNCHANGED <<store, nextId, last, attrs>>

-----------------------------------------------------------------------------
(* Base.save taken step by step: the slug lookup, then the row write *)

RaceType == "Organisation"

\* Base.save up to the assignment of self.slug: the instance of a new record
\* gets its slug from the rows stored at this moment
SaveAssignSlug(k, name) ==
    LET obj == NewObj(name, Empty, NoParent)
    IN  /\ reqs[k].pc = "idle"
        /\ reqs' = [reqs EXCEPT ![k] =
                       [pc |-> "checked", id |-> nextId,
                        inst |-> {[obj EXCEPT !.slug = AssignSlug(store[RaceType], obj)]}]]
        /\ nextId' = nextId + 1
        /\ UNCHANGED <<store, last, start, attrs>>

\* super().save(): the row is written under the unique constraint on slug
SaveWriteRow(k) ==
    /\ reqs[k].pc = "checked"
    /\ \E obj \in reqs[k].inst :
          IF UniqueViolation(store[RaceType], obj)
          THEN /\ reqs' = [reqs EXCEPT ![k].pc = "failed"]
               /\ last' = [op |-> "save", outcome |-> "IntegrityError"]
               /\ UNCHANGED store
          ELSE /\ store' = [store EXCEPT ![RaceType] =
                                Rebuild(WriteRow(store[RaceType], obj))]
               /\ reqs' = [reqs EXCEPT ![k].pc = "done"]
               /\ last' = [op |-> "save", outcome |-> "ok"]
    /\ UNCHANGED <<nextId, start, attrs>>

\* save() has returned or raised; the caller is free to start another save
SaveReturn(k) ==
    /\ reqs[k].pc \in {"done", "failed"}
    /\ reqs' = [reqs EXCEPT ![k] = Idle]
    /\ UNCHANGED <<store, nextId, last, start, attrs>>

-----------------------------------------------------------------------------
(* Attribute values: AttributeAdmin.save_model and _get_boolean_value *)

\* the data types that save_model tells apart: boolean, and any other
DataTypes == {"string", "boolean"}

\* texts a value field may carry
TextValues == { Empty, <<"y", "e", "s">>, <<"T", "r", "u", "e">> }

\* value and data_type of an attribute that was never saved
AttrDefault == [data_type |-> "string", value |-> Empty]

Uppercase == <<"A", "B", "C", "D", "E", "F", "G", "H", "I", "J", "K", "L", "M",
               "N", "O", "P", "Q", "R", "S", "T", "U", "V", "W", "X", "Y", "Z">>

Lowercase == <<"a", "b", "c", "d", "e", "f", "g", "h", "i", "j", "k", "l", "m",
               "n", "o", "p", "q", "r", "s", "t", "u", "v", "w", "x", "y", "z">>

\* str.lower()
StrLower(s) ==
    [i \in 1..Len(s) |->
        IF \E k \in 1..26 : Uppercase[k] = s[i]
        THEN Lowercase[CHOOSE k \in 1..26 : Uppercase[k] = s[i]]
        ELSE s[i]]

\* ['true', '1', 'yes', 'on']
TrueWords == { <<"t", "r", "u", "e">>, <<"1">>, <<"y", "e", "s">>, <<"o", "n">> }

\* _get_boolean_value(instance); instance is None or a stored attribute
GetBooleanValue(instance) ==
    \E i \in instance : i.value # Empty /\ StrLower(i.value) \in TrueWords

\* variant: str(value) of the checkbox value
BooleanStr(value) ==
    IF value THEN <<"T", "r", "u", "e">> ELSE <<"F", "a", "l", "s", "e">>

\* 'true' if value else 'false'
BooleanToString(value) ==
    IF value THEN <<"t", "r", "u", "e">> ELSE <<"f", "a", "l", "s", "e">>

\* Attribute.objects.create(name=..., parent=..., data_type=..., value=...)
AttributeCreate(name, parent, data_type, value) ==
    LET t == "Attribute"
    IN  /\ parent \in ParentChoices(t)
        /\ \E res \in {TreeSave(store[t], NewObj(name, Empty, parent))} :
              /\ store' = [store EXCEPT ![t] = res.rows]
              /\ nextId' = IF res.ok THEN nextId + 1 ELSE nextId
              /\ attrs' = IF res.ok
                          THEN [attrs EXCEPT ![nextId] =
                                   [data_type |-> data_type, value |-> value]]
                          ELSE attrs
              /\ last' = [op |-> "attribute_create", outcome |-> Outcome(res)]
        /\ UNCHANGED <<reqs, start>>

\* AttributeAdmin.save_model: value is the cleaned value of the form, the
\* checkbox value when data_type is boolean and the entered text otherwise
AttributeSaveModel(change, id, name, parent, data_type, value) ==
    LET t == "Attribute"
    IN  /\ parent \in ParentChoices(t)
        /\ IF change THEN id \in Ids(store[t]) ELSE id = nextId
        /\ LET obj == IF change
                      THEN [Row(store[t], id) EXCEPT !.name = name, !.parent = parent]
                      ELSE NewObj(name, Empty, parent)
               stored == IF data_type = "boolean" THEN BooleanToString(value)
                         ELSE value
           IN  IF name = Empty
               THEN /\ UNCHANGED <<store, nextId, attrs>>
                    /\ last' = [op |-> "attribute_admin_save", outcome |-> "invalid"]
               ELSE \E res \in {TreeSave(store[t], obj)} :
                      /\ store' = [store EXCEPT ![t] =
                                      IF res.ok THEN UpdateTree(res.rows)
                                      ELSE res.rows]
                      /\ nextId' = IF res.ok /\ ~change THEN nextId + 1 ELSE nextId
                      /\ attrs' = IF res.ok
                                  THEN [attrs EXCEPT ![id] =
                                           [data_type |-> data_type, value |-> stored]]
                                  ELSE attrs
                      /\ last' = [op |-> "attribute_admin_save",
                                  outcome |-> Outcome(res)]
        /\ UNCHANGED <<reqs, start>>

-----------------------------------------------------------------------------
(* Specifications *)

Init ==
    /\ store = [t \in EntityTypes |-> {}]
    /\ nextId = 1
    /\ last = [op |-> "none", outcome |-> "ok"]
    /\ reqs = [k \in Requests |-> Idle]
    /\ start = {}
    /\ attrs = [i \in 1..MaxAttrs |-> AttrDefault]

\* Hierarchy: every surface, parents drawn freely, one name per record
TreeTypes == {"Application"}

NodeName(id) == <<"A", Digit[id + 1]>>

Stored(t, id) == IF id \in Ids(store[t]) THEN {Row(store[t], id)} ELSE {}

Next ==
    \/ \E t \in TreeTypes, parent \in 0..MaxNodes :
          nextId <= MaxNodes /\ ModelCreate(t, NodeName(nextId), Empty, parent)
    \/ \E t \in TreeTypes, id \in 1..MaxNodes, parent \in 0..MaxNodes :
          \E r \in Stored(t, id) : ModelSave(t, id, r.name, r.slug, parent)
    \/ \E t \in TreeTypes, parent \in 0..MaxNodes :
          nextId <= MaxNodes
          /\ AdminSaveModel(t, FALSE, nextId, NodeName(nextId), parent)
    \/ \E t \in TreeTypes, id \in 1..MaxNodes, parent \in 0..MaxNodes :
          \E r \in Stored(t, id) : AdminSaveModel(t, TRUE, id, r.name, parent)
    \/ \E parent \in 0..MaxNodes :
          nextId <= MaxNodes /\ CrudCreate(NodeName(nextId), Empty, parent)
    \/ \E id \in 1..MaxNodes, parent \in 0..MaxNodes :
          \E r \in Stored("Application", id) : CrudUpdate(id, r.name, r.slug, parent)
    \/ \E id \in 1..MaxNodes :
          \E r \in Stored("Application", id), parent \in {NoParent, id} :
              EditOnSave(id, r.name, r.slug, parent)
    \/ \E t \in TreeTypes, id \in 1..MaxNodes : Delete(t, id)

Spec == Init /\ [][Next]_vars

\* Slugs: names and explicit slugs drawn freely, every record a root
SlugTypes == {"Application", "Organisation"}

Slugs == {Empty} \cup ExplicitSlugs

SlugNext ==
    \/ \E t \in SlugTypes, name \in Names, slug \in Slugs :
          nextId <= MaxRecords /\ ModelCreate(t, name, slug, NoParent)
    \/ \E t \in SlugTypes, id \in 1..MaxRecords, name \in Names, slug \in Slugs :
          ModelSave(t, id, name, slug, NoParent)
    \/ \E t \in SlugTypes, name \in Names :
          nextId <= MaxRecords /\ AdminSaveModel(t, FALSE, nextId, name, NoParent)
    \/ \E t \in SlugTypes, id \in 1..MaxRecords, name \in Names :
          AdminSaveModel(t, TRUE, id, name, NoParent)
    \/ \E name \in Names, slug \in Slugs :
          nextId <= MaxRecords /\ CrudCreate(name, slug, NoParent)
    \/ \E id \in 1..MaxRecords, name \in Names, slug \in Slugs :
          CrudUpdate(id, name, slug, NoParent)
    \/ \E id \in 1..MaxRecords, name \in Names, slug \in Slugs :
          EditOnSave(id, name, slug, NoParent)
    \/ \E t \in SlugTypes, id \in 1..MaxRecords : Delete(t, id)

SlugSpec == Init /\ [][SlugNext]_vars

\* Slug generation: records of one entity type saved without a slug
BatchType == "Organisation"

BatchNext ==
    \/ \E name \in BatchNames, slug \in Slugs :
          nextId <= MaxBatch /\ ModelCreate(BatchType, name, slug, NoParent)
    \/ \E name \in BatchNames :
          nextId <= MaxBatch /\ AdminSaveModel(BatchType, FALSE, nextId, name, NoParent)
    \/ \E id \in 1..MaxBatch, name \in BatchNames :
          ModelSave(BatchType, id, name, Empty, NoParent)
    \/ \E id \in 1..MaxBatch : Delete(BatchType, id)

BatchSpec == Init /\ [][BatchNext]_vars

\* Concurrency: records are created, then two admin change requests run with
\* their steps interleaved freely; every state is one a reader can observe
ConcNext ==
    \/ \E parent \in 0..ConcNodes :
          /\ AllIdle
          /\ nextId <= ConcNodes
          /\ ModelCreate("Application", NodeName(nextId), Empty, parent)
    \/ \E k \in Requests, id \in 1..ConcNodes, parent \in 0..ConcNodes :
          AdminLoad(k, id, parent)
    \/ \E k \in Requests : AdminSave(k)
    \/ \E k \in Requests : AdminUpdateTree(k)

ConcSpec == Init /\ [][ConcNext]_vars

\* Failures: one request at a time; every operation that changes parent links
\* runs to its end, the admin save by its two statements, the second of which
\* may fail
AtomicNext ==
    \/ \E parent \in 0..ConcNodes :
          /\ AllIdle
          /\ nextId <= ConcNodes
          /\ ModelCreate("Application", NodeName(nextId), Empty, parent)
    \/ \E id \in 1..ConcNodes, parent \in 0..ConcNodes :
          /\ AllIdle
          /\ \E r \in Stored("Application", id) :
                ModelSave("Application", id, r.name, r.slug, parent)
    \/ \E id \in 1..ConcNodes, parent \in 0..ConcNodes :
          /\ AllIdle
          /\ \E r \in Stored("Application", id) :
                CrudUpdate(id, r.name, r.slug, parent)
    \/ \E id \in 1..ConcNodes : AllIdle /\ Delete("Application", id)
    \/ \E id \in 1..ConcNodes, parent \in 0..ConcNodes : AdminLoad("r1", id, parent)
    \/ AdminSave("r1")
    \/ AdminUpdateTree("r1")
    \/ AdminUpdateTreeFails("r1")
    \/ AdminRespond("r1")

AtomicSpec == Init /\ [][AtomicNext]_vars

\* Views: requests for stored and missing ids, with valid and invalid data
ViewNames == {Empty, <<"A">>, <<"B">>}

ViewNext ==
    \/ \E name \in ViewNames \ {Empty}, parent \in 0..MaxViewRecords :
          nextId <= MaxViewRecords /\ ModelCreate("Application", name, Empty, parent)
    \/ \E name \in ViewNames \ {Empty}, parent \in 0..MaxViewRecords :
          /\ nextId <= MaxViewRecords
          /\ AdminSaveModel("Application", FALSE, nextId, name, parent)
    \/ \E name \in ViewNames, slug \in Slugs, parent \in 0..MaxViewRecords :
          nextId <= MaxViewRecords /\ CrudCreateView(name, slug, parent)
    \/ \E name \in ViewNames, slug \in Slugs, parent \in 0..MaxViewRecords :
          CreateViewOnSave(name, slug, parent)
    \/ \E id \in 1..MaxViewRecords : CrudDetailView(id)
    \/ \E id \in 1..MaxViewRecords, name \in ViewNames, slug \in Slugs,
          parent \in 0..MaxViewRecords :
          CrudUpdateView(id, name, slug, parent)
    \/ \E id \in 1..MaxViewRecords : CrudDeleteView(id)
    \/ \E id \in 1..MaxViewRecords, name \in ViewNames, slug \in Slugs,
          parent \in 0..MaxViewRecords :
          EditView(id, "save", name, slug, parent)
    \/ \E id \in 1..MaxViewRecords : EditView(id, "delete", Empty, Empty, NoParent)

ViewSpec == Init /\ [][ViewNext]_vars

\* Interleaved saves: two callers save new records of one type without a
\* slug, their lookups and writes in any order
RaceNext ==
    \/ \E k \in Requests, name \in Names :
          nextId <= MaxRace /\ SaveAssignSlug(k, name)
    \/ \E k \in Requests : SaveWriteRow(k)
    \/ \E k \in Requests : SaveReturn(k)

RaceSpec == Init /\ [][RaceNext]_vars

\* Attributes: created through the model with any stored text, added and
\* changed through the admin with a checkbox value or an entered text
AttrNext ==
    \/ \E parent \in 0..MaxAttrs, data_type \in DataTypes, value \in TextValues :
          /\ nextId <= MaxAttrs
          /\ AttributeCreate(NodeName(nextId), parent, data_type, value)
    \/ \E parent \in 0..MaxAttrs, value \in BOOLEAN :
          /\ nextId <= MaxAttrs
          /\ AttributeSaveModel(FALSE, nextId, NodeName(nextId), parent,
                                "boolean", value)
    \/ \E parent \in 0..MaxAttrs, value \in TextValues :
          /\ nextId <= MaxAttrs
          /\ AttributeSaveModel(FALSE, nextId, NodeName(nextId), parent,
                                "string", value)
    \/ \E id \in 1..MaxAttrs, parent \in 0..MaxAttrs, value \in BOOLEAN :
          AttributeSaveModel(TRUE, id, NodeName(id), parent, "boolean", value)
    \/ \E id \in 1..MaxAttrs, parent \in 0..MaxAttrs, value \in TextValues :
          AttributeSaveModel(TRUE, id, NodeName(id), parent, "string", value)

AttrSpec == Init /\ [][AttrNext]_vars

-----------------------------------------------------------------------------
(* Reading the stored hierarchy *)

\* variant: levels counted from 1
LevelFromOne(r) == r.depth + 1

\* Application.level / Attribute.level / Organisation.level
Level(r) == r.depth

\* the record k links up the parent chain from id; NoParent past the top
RECURSIVE Up(_, _, _)
Up(S, id, k) ==
    IF id = NoParent \/ id \notin Ids(S) THEN NoParent
    ELSE IF k = 0 THEN id
    ELSE Up(S, Row(S, id).parent, k - 1)

\* the ids met on the parent chain that starts at id, at most fuel of them
RECURSIVE Chain(_, _, _)
Chain(S, id, fuel) ==
    IF id = NoParent \/ fuel = 0 \/ ~(\E r \in S : r.id = id) THEN {}
    ELSE {id} \cup Chain(S, Row(S, id).parent, fuel - 1)

AncestorIds(S, r) == Chain(S, r.parent, Cardinality(S))

\* b is reached from a by following parent links upward
IsDescendant(S, a, b) == b.id \in AncestorIds(S, a)

\* string comparison of the database, character by character
CharRank(c) ==
    IF c = "." THEN 0
    ELSE CHOOSE i \in 1..16 : HexDigit[i] = c

RECURSIVE StrLess(_, _)
StrLess(a, b) ==
    IF b = << >> THEN FALSE
    ELSE IF a = << >> THEN TRUE
    ELSE IF Head(a) = Head(b) THEN StrLess(Tail(a), Tail(b))
    ELSE CharRank(Head(a)) < CharRank(Head(b))

\* variant: the ordering of Base.Meta, newest first
RECURSIVE ByNewestFirst(_)
ByNewestFirst(R) ==
    IF R = {} THEN << >>
    ELSE LET first == CHOOSE r \in R : \A q \in R : q.id <= r.id
         IN  <<first>> \o ByNewestFirst(R \ {first})

\* Meta.ordering = ['_path'] / order_by('_path'): the records as listed
RECURSIVE ByPath(_)
ByPath(R) ==
    IF R = {} THEN << >>
    ELSE LET first == CHOOSE r \in R : \A q \in R : ~StrLess(q.path, r.path)
         IN  <<first>> \o ByPath(R \ {first})

IsSegment(s) == Len(s) = 3 /\ \A i \in 1..3 : \E d \in 1..16 : HexDigit[d] = s[i]

IsPrefix(p, q) == Len(p) <= Len(q) /\ SubSeq(q, 1, Len(p)) = p

\* q is p, a dot, and one more segment
ExtendsByOne(p, q) ==
    /\ Len(q) = Len(p) + 4
    /\ IsPrefix(p, q)
    /\ q[Len(p) + 1] = "."
    /\ IsSegment(SubSeq(q, Len(p) + 2, Len(p) + 4))

-----------------------------------------------------------------------------
(* Hierarchy claims, checked under Spec *)

\* C4: after every completed operation a record without a parent has depth 0,
\* a record with a parent has its parent's depth plus 1, and level returns
\* that depth, whichever surface performed the operation.
DepthConsistent ==
    \A t \in EntityTypes : \A r \in store[t] :
        IF r.parent = NoParent
        THEN Level(r) = 0
        ELSE /\ r.parent \in Ids(store[t])
             /\ Level(r) = Level(Row(store[t], r.parent)) + 1

\* a grandchild is stored after an admin save or a CRUD update
DepthWitness ==
    /\ last.op \in {"admin_save", "crud_update"}
    /\ last.outcome = "ok"
    /\ \E r \in store["Application"] : Level(r) = 2

\* C5: the parent links of each entity type form a forest: every chain of
\* parent links ends at a record without a parent and never comes back to
\* the record it started from.
Forest ==
    \A t \in EntityTypes : \A r \in store[t] :
        /\ r.parent \in {NoParent} \cup Ids(store[t])
        /\ r.id \notin AncestorIds(store[t], r)
        /\ Up(store[t], r.id, Cardinality(store[t])) = NoParent

\* a record was moved under a record created after it, below a third one
ForestWitness ==
    \E r, q \in store["Application"] :
        /\ r.parent = q.id
        /\ q.id > r.id
        /\ q.parent # NoParent

\* record id is stored with parent p
StoredUnder(S, id, p) == \E r \in S : r.id = id /\ r.parent = p

UpdateOps == {"save", "admin_save", "crud_update"}

\* the step is an update of record x to parent q on one of the three surfaces
UpdateTo(x, q) ==
    \/ /\ last'.op = "save"
       /\ ModelSave("Application", x.id, x.name, x.slug, q.id)
    \/ /\ last'.op = "admin_save"
       /\ AdminSaveModel("Application", TRUE, x.id, x.name, q.id)
    \/ /\ last'.op = "crud_update"
       /\ CrudUpdate(x.id, x.name, x.slug, q.id)

\* the step is refused and leaves every record as it was
Refused == store' = store /\ last'.outcome = "ValidationError"

IntervalContainment ==
    \A t \in EntityTypes : \A a \in store[t] :
        /\ a.left < a.right
        /\ \A b \in store[t] :
              IsDescendant(store[t], b, a) <=> (a.left < b.left /\ b.right < a.right)

\* a delete renumbered a forest that keeps a parent with a child and a root
IntervalWitness ==
    /\ last.op = "delete"
    /\ \E a, b, c \in store["Application"] :
          /\ b.parent = a.id
          /\ c.parent = NoParent
          /\ c.id # a.id

\* C8: after every completed operation the path of a record with a parent is
\* its parent's path extended by one segment, siblings differ in that
\* segment, and the path of a root is a single segment.
PathExtendsParent ==
    \A t \in EntityTypes : \A r \in store[t] :
        /\ IF r.parent = NoParent
           THEN IsSegment(r.path)
           ELSE /\ r.parent \in Ids(store[t])
                /\ ExtendsByOne(Row(store[t], r.parent).path, r.path)
        /\ \A q \in store[t] : (q.parent = r.parent /\ q.id # r.id) => q.path # r.path

\* two siblings below a record that is itself a child
PathWitness ==
    \E r, q \in store["Application"] :
        /\ r.id # q.id
        /\ r.parent = q.parent
        /\ r.depth = 2

\* C9: the records of one entity type listed by path ascending are in
\* pre-order: a record comes before all of its descendants, and its
\* descendants come before any later record that is not its descendant.
PathOrderIsPreOrder ==
    \A t \in EntityTypes :
        LET S == store[t]
            list == ByPath(S)
        IN  /\ \A a, b \in S : a.id # b.id => a.path # b.path
            /\ \A i, j \in 1..Len(list) :
                  IsDescendant(S, list[j], list[i]) => i < j
            /\ \A i, j, k \in 1..Len(list) :
                  (i < j /\ j < k /\ IsDescendant(S, list[k], list[i]))
                      => IsDescendant(S, list[j], list[i])

\* the listing differs from creation order: a later record is listed first
PreOrderWitness ==
    LET list == ByPath(store["Application"])
    IN  /\ Len(list) = 4
        /\ \E i \in 1..3 : list[i].id > list[i + 1].id
        /\ \E r \in store["Application"] : r.depth = 2

\* the derived fields of S agree with the parent links of S
Fresh(S) ==
    \A r \in S :
        LET above == AncestorIds(S, r)
        IN  /\ r.depth = Cardinality(above)
            /\ Len(r.path) = 4 * r.depth + 3
            /\ \A a \in S :
                  a.id \in above =>
                      /\ IsPrefix(a.path, r.path) /\ a.path # r.path
                      /\ a.left < r.left /\ r.right < a.right

\* the subtree of record id has followed it
SubtreeFollows(S, id) ==
    \A d \in S :
        d.parent = id =>
            /\ d.depth = Row(S, id).depth + 1
            /\ ExtendsByOne(Row(S, id).path, d.path)

\* C10: once a save has changed a record's parent, the depth, path, left and
\* right of that record and of its whole subtree match the new ancestor chain.
NoStaleAfterReparent ==
    [][ \A t \in TreeTypes : \A r \in store[t] : \A q \in store'[t] :
          (q.id = r.id /\ q.parent # r.parent)
              => (Fresh(store'[t]) /\ SubtreeFollows(store'[t], q.id)) ]_vars

\* mid, created before the second root, now hangs under it with its leaf
ReparentWitness ==
    /\ last.op \in {"admin_save", "crud_update"}
    /\ \E root2, mid, leaf \in store["Application"] :
          /\ root2.parent = NoParent
          /\ mid.parent = root2.id
          /\ mid.id < root2.id
          /\ leaf.parent = mid.id
          /\ leaf.depth = 2

-----------------------------------------------------------------------------
(* Slug claims *)

SlugUsed(S, slug) == \E r \in S : r.slug = slug

\* the slug the contract promises for a record saved without one: the base,
\* or the base with the smallest counter from 1 that no record uses
ExpectedSlug(S, base) ==
    IF ~SlugUsed(S, base) THEN base
    ELSE LET k == CHOOSE k \in 1..(Cardinality(S) + 1) :
                      /\ ~SlugUsed(S, Suffixed(base, k))
                      /\ \A j \in 1..(k - 1) : SlugUsed(S, Suffixed(base, j))
         IN  Suffixed(base, k)

\* the slugs base, base-1, ..., base-(n-1)
Family(base, n) ==
    {IF k = 0 THEN base ELSE Suffixed(base, k) : k \in 0..(n - 1)}

\* C1 (SlugSpec): after any sequence of creates, updates and deletes no two
\* stored records of the same entity type have equal slugs.
SlugsUnique ==
    \A t \in EntityTypes : \A r, q \in store[t] :
        r.id # q.id => r.slug # q.slug

\* two records of one type whose names normalize to the same base are stored
SlugsUniqueWitness ==
    \E r, q \in store["Application"] :
        /\ r.id # q.id
        /\ r.name # Empty
        /\ Slugify(r.name) = Slugify(q.name)

\* C2 (BatchSpec): a record saved without a slug gets the normalized name, or
\* that base with the smallest counter k >= 1 no other record of the type
\* uses; so a record created in a store whose slugs are exactly
\* base, base-1, ..., base-(n-1) gets base-n.
GeneratedSlugSmallestFree ==
    [][ \A name \in BatchNames : \A id \in 1..nextId :
          ( /\ last'.outcome = "ok"
            /\ \E r \in store'[BatchType] : r.id = id /\ r.name = name
            /\ \/ id = nextId /\ ModelCreate(BatchType, name, Empty, NoParent)
               \/ id = nextId /\ AdminSaveModel(BatchType, FALSE, id, name, NoParent)
               \/ ModelSave(BatchType, id, name, Empty, NoParent) )
          => LET others == {r \in store[BatchType] : r.id # id}
                 base   == Slugify(name)
                 saved  == Row(store'[BatchType], id)
             IN  /\ saved.slug = ExpectedSlug(others, base)
                 /\ ( /\ name # Empty
                      /\ id = nextId
                      /\ {r.slug : r \in others} = Family(base, Cardinality(others)) )
                       => saved.slug = (IF others = {} THEN base
                                        ELSE Suffixed(base, Cardinality(others))) ]_vars

\* three records named alike carry base, base-1, base-2 in creation order
GeneratedSlugWitness ==
    /\ last.op \in {"create", "admin_save"}
    /\ \E r1, r2, r3 \in store[BatchType] :
          /\ r1.id < r2.id /\ r2.id < r3.id
          /\ r1.name = <<"A">> /\ r2.name = <<"A">> /\ r3.name = <<"A">>
          /\ r1.slug = <<"a">>
          /\ r2.slug = <<"a", "-", "1">>
          /\ r3.slug = <<"a", "-", "2">>

\* C3 (SlugSpec): creating a record with a supplied slug that a record of the
\* same type already has fails, and the stored records stay as they were.
ExplicitDuplicateFails ==
    [][ \A t \in SlugTypes : \A name \in Names : \A slug \in ExplicitSlugs :
          ( /\ SlugUsed(store[t], slug)
            /\ \/ ModelCreate(t, name, slug, NoParent)
               \/ (t = "Application" /\ CrudCreate(name, slug, NoParent)) )
          => (last'.outcome # "ok" /\ store' = store /\ nextId' = nextId) ]_vars

\* a create was refused by the unique constraint
ExplicitDuplicateWitness ==
    /\ last = [op |-> "create", outcome |-> "IntegrityError"]
    /\ \E t \in SlugTypes : \E r \in store[t] : r.slug \in ExplicitSlugs

-----------------------------------------------------------------------------
(* The application list *)

\* the characters of names, in the order the database compares them
NameChars == <<" ", "!", "-", "0", "1", "2", "3", "4", "5", "6", "7", "8", "9",
               "A", "a">>

NameRank(c) == CHOOSE i \in 1..Len(NameChars) : NameChars[i] = c

RECURSIVE NameLess(_, _)
NameLess(a, b) ==
    IF b = << >> THEN FALSE
    ELSE IF a = << >> THEN TRUE
    ELSE IF Head(a) = Head(b) THEN NameLess(Tail(a), Tail(b))
    ELSE NameRank(Head(a)) < NameRank(Head(b))

RECURSIVE ByName(_)
ByName(R) ==
    IF R = {} THEN << >>
    ELSE LET first == CHOOSE r \in R : \A q \in R : ~NameLess(q.name, r.name)
         IN  <<first>> \o ByName(R \ {first})

\* ApplicationListView.get_queryset: ordering = ['name']
ApplicationListView(S) == ByName(S)

\* C11: the application list shows every application after its parent and
\* all of its other ancestors.
ListAfterAncestors ==
    LET S    == store["Application"]
        list == ApplicationListView(S)
    IN  \A i, j \in 1..Len(list) :
            IsDescendant(S, list[j], list[i]) => i < j

-----------------------------------------------------------------------------
(* Concurrency claims, checked under ConcSpec *)

\* the derived fields of S agree with its parent links, and the intervals of
\* two records are nested exactly for ancestor and descendant, disjoint otherwise
Consistent(S) ==
    /\ Fresh(S)
    /\ \A a \in S : a.left < a.right
    /\ \A a, b \in S :
          a.id # b.id =>
              IF IsDescendant(S, b, a) THEN a.left < b.left /\ b.right < a.right
              ELSE IF IsDescendant(S, a, b) THEN b.left < a.left /\ a.right < b.right
              ELSE a.right < b.left \/ b.right < a.left

Apply(S, k) ==
    LET obj == [Row(S, reqs[k].id) EXCEPT
                   !.parent = (CHOOSE o \in reqs[k].inst : TRUE).parent]
        res == TreeSave(S, obj)
    IN  IF res.ok THEN UpdateTree(res.rows) ELSE S

\* the forests reached from S by running the requests K one after the other
RECURSIVE SerialResults(_, _)
SerialResults(S, K) ==
    IF K = {} THEN {S}
    ELSE UNION {SerialResults(Apply(S, k), K \ {k}) : k \in K}

-----------------------------------------------------------------------------
(* Delete, lookup and validation claims, checked under Spec *)

\* Model.objects.get(slug=...): the matching records, none meaning not found
GetBySlug(S, slug) == {r \in S : r.slug = slug}

DescendantIds(S, id) == {r.id : r \in {q \in S : id \in AncestorIds(S, q)}}

\* C14: deleting an application removes it and every one of its descendants:
\* afterwards no stored record is, or has as parent or ancestor, a deleted
\* record, and looking a former descendant up by its slug finds nothing.
CascadeDelete ==
    [][ \A t \in TreeTypes : \A x \in store[t] :
          ( /\ last'.op = "delete"
            /\ ~(\E r \in store'[t] : r.id = x.id)
            /\ Delete(t, x.id) )
          => LET gone == {x.id} \cup DescendantIds(store[t], x.id)
             IN  /\ \A r \in store'[t] :
                       /\ r.id \notin gone
                       /\ r.parent \notin gone
                       /\ AncestorIds(store'[t], r) \cap gone = {}
                 /\ \A d \in store[t] :
                       d.id \in gone => GetBySlug(store'[t], d.slug) = {} ]_vars

\* a delete has left one tree standing while at least two records are gone
CascadeWitness ==
    /\ last.op = "delete"
    /\ \E r, c \in store["Application"] : c.parent = r.id
    /\ nextId - 1 - Cardinality(store["Application"]) >= 2

-----------------------------------------------------------------------------
(* View claims, checked under ViewSpec *)

\* the step is a detail, update or delete request for application id; each
\* request is looked for under the operation it reports
RequestFor(id) ==
    \/ /\ last'.op = "crud_detail"
       /\ CrudDetailView(id)
    \/ /\ last'.op \in {"delete", "edit_view"}
       /\ \/ CrudDeleteView(id)
          \/ EditView(id, "delete", Empty, Empty, NoParent)
    \/ /\ last'.op = "crud_update"
       /\ \E name \in ViewNames, slug \in Slugs, parent \in 0..MaxViewRecords :
             CrudUpdateView(id, name, slug, parent)
    \/ /\ last'.op \in {"edit_view", "edit_on_save"}
       /\ \E name \in ViewNames, slug \in Slugs, parent \in 0..MaxViewRecords :
             EditView(id, "save", name, slug, parent)

\* C15: detail, update and delete for an id that matches no stored record
\* yield not found and leave the store unchanged; a request for a stored
\* record never yields not found, so the outcome is distinct from a
\* validation failure.
MissingIdNotFound ==
    [][ \A id \in 1..MaxViewRecords :
          IF id \in Ids(store["Application"])
          THEN last'.outcome # "NotFound" \/ ~RequestFor(id)
          ELSE \/ /\ last'.outcome = "NotFound"
                  /\ store' = store
                  /\ nextId' = nextId
               \/ ~RequestFor(id) ]_vars

\* a delete found nothing after a record had been deleted
NotFoundWitness ==
    /\ last = [op |-> "delete", outcome |-> "NotFound"]
    /\ nextId - 1 > Cardinality(store["Application"])

\* parent cannot be the parent of record id: it is no stored record, or it is
\* the record itself or one of its descendants
BadParent(S, id, parent) ==
    \/ parent \notin {NoParent} \cup Ids(S)
    \/ parent = id
    \/ id \in Ids(S) /\ parent \in DescendantIds(S, id)

\* C16: a create or update whose submitted data fails validation (a required
\* field missing, an invalid parent) is rejected and persists nothing.
InvalidDataRejected ==
    [][ \A name \in ViewNames : \A slug \in Slugs : \A parent \in 0..MaxViewRecords :
          LET S == store["Application"]
          IN  /\ ( /\ name = Empty \/ BadParent(S, nextId, parent)
                   /\ CrudCreateView(name, slug, parent) )
                    => (last'.outcome # "ok" /\ store' = store /\ nextId' = nextId)
              /\ ( /\ name = Empty \/ slug = Empty \/ BadParent(S, nextId, parent)
                   /\ CreateViewOnSave(name, slug, parent) )
                    => (last'.outcome # "ok" /\ store' = store /\ nextId' = nextId)
              /\ \A id \in Ids(S) :
                    /\ ( /\ name = Empty \/ BadParent(S, id, parent)
                         /\ CrudUpdateView(id, name, slug, parent) )
                          => (last'.outcome # "ok" /\ store' = store /\ nextId' = nextId)
                    /\ ( /\ name = Empty \/ slug = Empty \/ BadParent(S, id, parent)
                         /\ EditView(id, "save", name, slug, parent) )
                          => (last'.outcome # "ok" /\ store' = store /\ nextId' = nextId)
      ]_vars

\* C18: after a valid update is submitted for an existing application, the
\* stored record with that id has the submitted name, and the number of
\* stored applications is unchanged.
ValidUpdateStored ==
    [][ \A id \in Ids(store["Application"]) : \A name \in ViewNames \ {Empty} :
        \A slug \in Slugs : \A parent \in 0..MaxViewRecords :
          ( /\ \/ CrudUpdateView(id, name, slug, parent)
               \/ EditView(id, "save", name, slug, parent)
            /\ last'.outcome = "ok" )
          => /\ \E r \in store'["Application"] : r.id = id /\ r.name = name
             /\ Cardinality(store'["Application"]) = Cardinality(store["Application"])
      ]_vars

-----------------------------------------------------------------------------
(* Failure claims, checked under AtomicSpec *)

\* the step ends an operation: one made in a single step, or the last step of
\* an admin change request
Completes ==
    \/ AllIdle /\ AllIdle'
    \/ \E k \in Requests : /\ reqs[k].pc \in {"loaded", "saved"}
                            /\ reqs'[k].pc \in {"done", "failed"}

\* the stored records as they were when the operation that ends here began
Before == IF AllIdle THEN store ELSE [store EXCEPT !["Application"] = start]

-----------------------------------------------------------------------------
(* Slug generation claims *)

\* C19 (BatchSpec): a save that finds no explicit slug leaves the record
\* without a slug only when the name is empty; every stored record with a
\* non-empty name has a non-empty slug.
NamedRecordHasSlug ==
    \A r \in store[BatchType] : r.name # Empty => r.slug # Empty

\* the slug stored for record id
SlugOf(S, id) == Row(S, id).slug

\* C20 (SlugSpec): a successful re-save of a record that has a slug leaves
\* the slug as it was, also when the name is changed; a record re-saved with
\* its slug cleared gets the slug the other records leave free, so its own
\* stored slug is no collision and with an unchanged name its base slug comes
\* back. Stated as: no successful save ends otherwise.
ResaveKeepsSlug ==
    [][ \A t \in SlugTypes : \A r \in store[t] :
          \/ last'.outcome # "ok"
          \/ last'.op \notin {"save", "admin_save"}
          \/ r.id \notin Ids(store'[t])
          \/ /\ \/ r.slug = Empty
                 \/ SlugOf(store'[t], r.id) = r.slug
                 \/ \A name \in Names :
                       /\ ~ModelSave(t, r.id, name, r.slug, NoParent)
                       /\ ~AdminSaveModel(t, TRUE, r.id, name, NoParent)
             /\ \/ r.name = Empty
                 \/ /\ SlugOf(store'[t], r.id) =
                          ExpectedSlug(store[t] \ {r}, Slugify(r.name))
                    /\ r.slug = Slugify(r.name) => SlugOf(store'[t], r.id) = r.slug
                 \/ ~ModelSave(t, r.id, r.name, Empty, NoParent)
      ]_vars

\* an admin save left a record whose slug was generated from the name A and
\* whose name has been changed since
ResaveWitness ==
    /\ last = [op |-> "admin_save", outcome |-> "ok"]
    /\ \E t \in SlugTypes : \E r \in store[t] :
          /\ r.slug = Slugify(<<"A">>)
          /\ r.name \notin {Empty, <<"A">>}

-----------------------------------------------------------------------------
(* Create claims, checked under ViewSpec *)

\* the step is a create request with this name, no slug and this parent,
\* through the model, the admin or one of the two create forms
CreateWithoutSlug(name, parent) ==
    \/ last'.op = "create" /\ ModelCreate("Application", name, Empty, parent)
    \/ /\ last'.op = "admin_save"
       /\ AdminSaveModel("Application", FALSE, nextId, name, parent)
    \/ last'.op = "crud_create" /\ CrudCreateView(name, Empty, parent)
    \/ last'.op = "create_on_save" /\ CreateViewOnSave(name, Empty, parent)

\* C21: a create request with a valid name and no slug, through the model,
\* the admin or the CRUD create form, succeeds and stores a record whose slug
\* is derived from its name.
CreateDerivesSlug ==
    [][ \A name \in ViewNames \ {Empty} : \A parent \in ParentChoices("Application") :
          CreateWithoutSlug(name, parent) =>
              /\ last'.outcome = "ok"
              /\ \E r \in store'["Application"] :
                    /\ r.id = nextId
                    /\ r.name = name
                    /\ r.slug = ExpectedSlug(store["Application"], Slugify(name))
      ]_vars

-----------------------------------------------------------------------------
(* Attribute value claims, checked under AttrSpec *)

\* the step is an admin save of attribute id with data type boolean and this
\* checkbox value; the save is looked for under the parent it stored
BooleanSave(id, value) ==
    /\ last' = [op |-> "attribute_admin_save", outcome |-> "ok"]
    /\ attrs'[id].data_type = "boolean"
    /\ \E r \in store'["Attribute"] :
          /\ r.id = id
          /\ AttributeSaveModel(id \in Ids(store["Attribute"]), id, NodeName(id),
                                r.parent, "boolean", value)

\* C22: after an attribute of data type boolean is saved through the admin,
\* the stored value is exactly "true" when the submitted checkbox value is
\* true and "false" otherwise, and _get_boolean_value of the stored attribute
\* is the submitted boolean.
BooleanRoundTrip ==
    [][ \A id \in 1..MaxAttrs : \A value \in BOOLEAN :
          \/ /\ attrs'[id].value = IF value THEN <<"t", "r", "u", "e">>
                                   ELSE <<"f", "a", "l", "s", "e">>
             /\ GetBooleanValue({attrs'[id]}) = value
          \/ ~BooleanSave(id, value)
      ]_vars

\* a boolean attribute saved through the admin with the checkbox set, and
\* another with the checkbox cleared
BooleanWitness ==
    /\ last = [op |-> "attribute_admin_save", outcome |-> "ok"]
    /\ \E i, j \in 1..MaxAttrs :
          /\ i < nextId /\ j < nextId
          /\ attrs[i] = [data_type |-> "boolean", value |-> <<"t", "r", "u", "e">>]
          /\ attrs[j] = [data_type |-> "boolean",
                         value |-> <<"f", "a", "l", "s", "e">>]

-----------------------------------------------------------------------------
(* Ancestor query and full path, checked under Spec *)

\* p is a prefix of q and shorter than q
IsStrictPrefix(p, q) == Len(p) < Len(q) /\ SubSeq(q, 1, Len(p)) = p

\* the records of R, shortest path first
RECURSIVE RootFirst(_)
RootFirst(R) ==
    IF R = {} THEN << >>
    ELSE LET first == CHOOSE a \in R : \A b \in R : Len(a.path) <= Len(b.path)
         IN  <<first>> \o RootFirst(R \ {first})

\* variant: the record itself is among its ancestors
GetAncestorsWithSelf(S, r) ==
    RootFirst({a \in S : IsStrictPrefix(a.path, r.path) \/ a.path = r.path})

\* obj.get_ancestors(): the records whose path is a strict prefix of the
\* path of r, root first
GetAncestors(S, r) ==
    RootFirst({a \in S : IsStrictPrefix(a.path, r.path)})

\* the records met by following parent links from id upward, topmost first
RECURSIVE ParentChain(_, _, _)
ParentChain(S, id, fuel) ==
    IF id = NoParent \/ fuel = 0 \/ id \notin Ids(S) THEN << >>
    ELSE ParentChain(S, Row(S, id).parent, fuel - 1) \o <<Row(S, id)>>

\* C23: for every record the ancestor query returns exactly the records on
\* its parent chain, without the record itself, root first; for a child
\* directly under a root it returns the one-element list of that root.
AncestorsAreParentChain ==
    \A t \in TreeTypes : \A r \in store[t] :
        LET S == store[t]
        IN  /\ GetAncestors(S, r) = ParentChain(S, r.parent, Cardinality(S))
            /\ \A root \in S :
                  (root.parent = NoParent /\ r.parent = root.id)
                  => GetAncestors(S, r) = <<root>>

\* a record with two ancestors is stored
AncestorsWitness ==
    \E r \in store["Application"] :
        /\ Len(GetAncestors(store["Application"], r)) = 2
        /\ last.outcome = "ok"

-----------------------------------------------------------------------------
(* Interleaved saves, checked under RaceSpec *)

\* C24: when two saves of records of one type with the same name and no
\* explicit slug both look the slug up before either writes, the store never
\* holds two records with the same slug: a save that has returned has its
\* record stored with the slug it looked up, a save that has failed has
\* stored nothing, and of two finished saves with the same slug at most one
\* has returned.
RaceLeavesSlugsUnique ==
    /\ \A r, q \in store[RaceType] : r.id # q.id => r.slug # q.slug
    /\ \A k \in Requests : \A obj \in reqs[k].inst :
          /\ reqs[k].pc = "failed" => obj.id \notin Ids(store[RaceType])
          /\ reqs[k].pc = "done" =>
                \E r \in store[RaceType] : r.id = obj.id /\ r.slug = obj.slug
    /\ \A k, j \in Requests : \A a \in reqs[k].inst : \A b \in reqs[j].inst :
          (k # j /\ a.slug = b.slug) => ~(reqs[k].pc = "done" /\ reqs[j].pc = "done")

\* two saves with the same name looked up the same slug; one has written its
\* row and the other has failed
RaceWitness ==
    \E k, j \in Requests : \E a \in reqs[k].inst : \E b \in reqs[j].inst :
        /\ k # j
        /\ a.name = b.name /\ a.name # Empty
        /\ a.slug = b.slug
        /\ reqs[k].pc = "done"
        /\ reqs[j].pc = "failed"
        /\ last = [op |-> "save", outcome |-> "IntegrityError"]

\* the result of a call that did not return within the calls allowed
Unfinished == [done |-> FALSE, text |-> Empty]

\* variant: the record's slug first, then the parent's full path
RECURSIVE GetFullPathLeafFirst(_, _, _)
GetFullPathLeafFirst(S, r, fuel) ==
    IF fuel = 0 THEN Unfinished
    ELSE IF r.parent # NoParent /\ r.parent \in Ids(S)
         THEN LET up == GetFullPathLeafFirst(S, Row(S, r.parent), fuel - 1)
              IN  IF up.done
                  THEN [done |-> TRUE, text |-> r.slug \o <<".">> \o up.text]
                  ELSE Unfinished
         ELSE [done |-> TRUE, text |-> r.slug]

\* get_full_path(): the parent's full path, a dot, the record's slug; fuel
\* is the number of nested calls allowed
RECURSIVE GetFullPath(_, _, _)
GetFullPath(S, r, fuel) ==
    IF fuel = 0 THEN Unfinished
    ELSE IF r.parent # NoParent /\ r.parent \in Ids(S)
         THEN LET up == GetFullPath(S, Row(S, r.parent), fuel - 1)
              IN  IF up.done
                  THEN [done |-> TRUE, text |-> up.text \o <<".">> \o r.slug]
                  ELSE Unfinished
         ELSE [done |-> TRUE, text |-> r.slug]

\* the slugs of the records of a list, joined by dots
RECURSIVE JoinSlugs(_)
JoinSlugs(rows) ==
    IF Len(rows) = 0 THEN Empty
    ELSE IF Len(rows) = 1 THEN rows[1].slug
    ELSE rows[1].slug \o <<".">> \o JoinSlugs(Tail(rows))

\* the number of parts text.split('.') has
SegmentCount(text) == Cardinality({i \in 1..Len(text) : text[i] = "."}) + 1

\* C25: for every record in every reachable state get_full_path returns
\* within as many nested calls as there are records, and its result is the
\* slugs of the record's ancestors, root first, followed by the record's own
\* slug, joined by dots: depth + 1 segments, and for a root the slug alone.
FullPathIsSlugChain ==
    \A t \in TreeTypes : \A r \in store[t] :
        LET S == store[t]
            full == GetFullPath(S, r, Cardinality(S))
        IN  /\ full.done
            /\ full.text = JoinSlugs(GetAncestors(S, r) \o <<r>>)
            /\ SegmentCount(full.text) = r.depth + 1
            /\ r.parent = NoParent => full.text = r.slug

\* a record two levels below a root, whose full path has three segments
FullPathWitness ==
    \E r \in store["Application"] :
        /\ r.depth = 2
        /\ SegmentCount(GetFullPath(store["Application"], r,
                                     Cardinality(store["Application"])).text) = 3

====
